---------------------------- MODULE Spec2Model ----------------------------
(***************************************************************************)
(* Fraud Shield: the Flask request handlers of flask_app.py (/predict,     *)
(* /download/<token>, the process-wide RESULTS_STORE) and the helpers of   *)
(* utils.py they call (validate_csv_data, prepare_data_for_prediction,     *)
(* calculate_risk_metrics).                                                *)
(*                                                                         *)
(* Text (a CSV file, a cell, a column name) is a sequence of tokens: the   *)
(* three characters CSV gives a meaning to (",", "\"", "\n") and atoms, an *)
(* atom standing for a run of ordinary characters ("V1", "Legitimate").    *)
(***************************************************************************)
EXTENDS Integers, Sequences, FiniteSets, TLC

VARIABLES
    MODEL,          \* the model loaded at startup: whether one was found, and
                    \*   whether it has predict_proba
    RESULTS_STORE,  \* token -> the CSV bytes stored under it
    request,        \* the request handled last
    response,       \* the response to it
    issued,         \* history: token -> what /predict stored under it
    okCount,        \* history: token -> the number of downloads that sent its file
    threads,        \* concurrent /download requests: each one's place and locals
    now,            \* history: the number of steps the threads have taken
    arg,            \* the argument of the helper under call (helper specifications)
    ret,            \* what the helper returned
    called          \* whether the helper has been called

appVars == <<MODEL, RESULTS_STORE, request, response, issued, okCount>>

threadVars == <<threads, now>>

helperVars == <<arg, ret, called>>

vars == <<MODEL, RESULTS_STORE, request, response, issued, okCount, threads, now,
          arg, ret, called>>

(***************************************************************************)
(* Bounds of the model.                                                    *)
(***************************************************************************)
MaxLen == 4         \* prediction sequences of every shape up to this length
MaxZeros == 98      \* block-shaped prediction sequences: this many 0s at most,
MaxOnes == 5        \*   followed by this many 1s at most
MaxTokens == 2      \* tokens /predict may draw
MaxThreads == 2     \* concurrent /download requests
MaxRows == 2        \* rows of an uploaded table

(***************************************************************************)
(* Numbers.  numpy floats are modelled as exact rationals num/den, or NaN. *)
(* The quotients compared below differ from the thresholds by 0 or by at   *)
(* least 1/(50*total), far above the float rounding error, so the exact    *)
(* comparison is the float comparison.                                     *)
(***************************************************************************)
NaN == [nan |-> TRUE, num |-> 0, den |-> 1]

Rat(n, d) == [nan |-> FALSE, num |-> n, den |-> d]

\* numpy: int64 / int, a true division; 0/0 is nan (a RuntimeWarning, no exception).
\* Only a zero numerator meets a zero denominator here (a count over no element).
NpDivide(n, d) == IF d = 0 THEN NaN ELSE Rat(n, d)

NpTimes(r, k) == IF r.nan THEN NaN ELSE Rat(r.num * k, r.den)

\* r > k on floats: every comparison with nan is False.
FloatGt(r, k) == ~r.nan /\ r.num > k * r.den

FloatLe(r, k) == ~r.nan /\ r.num <= k * r.den

FloatEq(r, k) == ~r.nan /\ r.num = k * r.den

RECURSIVE CountEq(_, _)
\* np.sum(xs == v)
CountEq(xs, v) ==
    IF xs = <<>> THEN 0
    ELSE (IF Head(xs) = v THEN 1 ELSE 0) + CountEq(Tail(xs), v)

RECURSIVE SeqSum(_)
SeqSum(xs) == IF xs = <<>> THEN 0 ELSE Head(xs) + SeqSum(Tail(xs))

SeqMax(xs) == CHOOSE m \in {xs[i] : i \in DOMAIN xs} : \A i \in DOMAIN xs : xs[i] <= m

SeqMin(xs) == CHOOSE m \in {xs[i] : i \in DOMAIN xs} : \A i \in DOMAIN xs : m <= xs[i]

RECURSIVE SeqsUpTo(_, _)
\* every sequence over S of length at most n
SeqsUpTo(S, n) ==
    IF n = 0 THEN {<<>>}
    ELSE LET shorter == SeqsUpTo(S, n - 1)
         IN  shorter \cup {Append(s, x) : s \in shorter, x \in S}

\* Optional[...]: None, or a value.
None == [some |-> FALSE, v |-> <<>>]

Some(x) == [some |-> TRUE, v |-> x]

(***************************************************************************)
(* utils.calculate_risk_metrics                                            *)
(***************************************************************************)
HIGH_THRESHOLD == 5

MEDIUM_THRESHOLD == 2

RiskLevel(fraud_rate) ==
    IF FloatGt(fraud_rate, HIGH_THRESHOLD) THEN "HIGH"
    ELSE IF FloatGt(fraud_rate, MEDIUM_THRESHOLD) THEN "MEDIUM"
    ELSE "LOW"

RiskIcon(risk_level) ==
    CASE risk_level = "HIGH" -> "warning"
      [] risk_level = "MEDIUM" -> "bolt"
      [] OTHER -> "check"

LegitimateCountAll(predictions) == Len(predictions)

LegitimateCount(predictions) == CountEq(predictions, 0)

\* The metrics dictionary before the probability keys are added.
BaseMetrics(predictions) ==
    LET total_transactions == Len(predictions)
        fraud_count == CountEq(predictions, 1)
        legitimate_count == LegitimateCount(predictions)
        fraud_rate == NpTimes(NpDivide(fraud_count, total_transactions), 100)
        risk_level == RiskLevel(fraud_rate)
    IN  [total_transactions |-> total_transactions,
         legitimate_count |-> legitimate_count,
         fraud_count |-> fraud_count,
         fraud_rate |-> fraud_rate,
         risk_level |-> risk_level,
         risk_icon |-> RiskIcon(risk_level)]

\* Probabilities are percentages (integers): np.mean of no element is nan,
\* np.max and np.min of no element raise ValueError.
ProbabilityMetrics(probabilities) ==
    [avg_fraud_probability |-> NpDivide(SeqSum(probabilities), Len(probabilities)),
     max_fraud_probability |-> SeqMax(probabilities),
     min_fraud_probability |-> SeqMin(probabilities)]

NoMetrics == [x \in {} |-> 0]

\* The outcome of a call: the exception that escaped ("none": it returned) and
\* the value returned.
Returned(v) == [exc |-> "none", value |-> v]

Raised(e) == [exc |-> e, value |-> NoMetrics]

calculate_risk_metrics(predictions, probabilities) ==
    IF ~probabilities.some THEN Returned(BaseMetrics(predictions))
    ELSE IF probabilities.v = <<>> THEN Raised("ValueError")
    ELSE Returned(BaseMetrics(predictions) @@ ProbabilityMetrics(probabilities.v))

(***************************************************************************)
(* Text and tables.  A DataFrame is its column names, one dtype per column *)
(* and its rows; a value is a number, a string, a bool, NaN, or an object  *)
(* of another kind (a list, a dict).  Numbers are integers; the dtype says *)
(* how one is written (int64: 7, float64: 7.0).                            *)
(***************************************************************************)
Comma == ","

Quote == "\""

Newline == "\n"

Atom(a) == <<a>>

Num(n) == [k |-> "num", n |-> n, s |-> <<>>]

Str(t) == [k |-> "str", n |-> 0, s |-> t]

Bool(b) == [k |-> "bool", n |-> IF b THEN 1 ELSE 0, s |-> <<>>]

NA == [k |-> "nan", n |-> 0, s |-> <<>>]

Obj == [k |-> "obj", n |-> 0, s |-> <<>>]

\* A probability, in hundredths.
Prob(p) == [k |-> "prob", n |-> p, s |-> <<>>]

DataFrame(columns, dtypes, rows) ==
    [columns |-> columns, dtypes |-> dtypes, rows |-> rows]

\* col in data.columns
HasColumn(data, col) == \E j \in DOMAIN data.columns : data.columns[j] = col

ColumnIndex(data, col) == CHOOSE j \in DOMAIN data.columns : data.columns[j] = col

\* The subsequence of xs at the indices that satisfy Keep, in order.
RECURSIVE SelectIdx(_, _, _)
SelectIdx(xs, Keep(_), j) ==
    IF j > Len(xs) THEN <<>>
    ELSE (IF Keep(j) THEN <<xs[j]>> ELSE <<>>) \o SelectIdx(xs, Keep, j + 1)

\* select_dtypes(include=[np.number]): int64 and float64; bool is not a number.
IsNumberDtype(dtype) == dtype \in {"int64", "float64"}

\* pd.api.types.is_numeric_dtype: the numbers, and bool.
is_numeric_dtype(dtype) == dtype \in {"int64", "float64", "bool"}

(***************************************************************************)
(* utils.validate_csv_data                                                 *)
(***************************************************************************)
MinColumns == 5

NumExpectedFeatures == 28

MaxMissingFeatures == 20

NumericShareTenths == 8

\* [f"V{i}" for i in range(1, 29)]
expected_features == [i \in 1..NumExpectedFeatures |-> Atom("V" \o ToString(i))]

missing_features(data) ==
    LET Absent(i) == ~HasColumn(data, expected_features[i])
    IN  SelectIdx(expected_features, Absent, 1)

numeric_columns(data) ==
    LET IsNumber(j) == IsNumberDtype(data.dtypes[j])
    IN  SelectIdx(data.columns, IsNumber, 1)

TooManyMissingGe(missing) == Len(missing) >= MaxMissingFeatures

TooManyMissing(missing) == Len(missing) > MaxMissingFeatures

\* len(numeric_columns) < len(data.columns) * 0.8, in tenths
TooFewNumeric(data) ==
    Len(numeric_columns(data)) * 10 < Len(data.columns) * NumericShareTenths

validate_csv_data(data) ==
    IF Len(data.columns) < MinColumns
    THEN [valid |-> FALSE, message |-> "CSV must contain at least 5 columns",
          listed |-> <<>>]
    ELSE IF TooManyMissing(missing_features(data))
    THEN [valid |-> FALSE, message |-> "Missing many expected feature columns",
          listed |-> SubSeq(missing_features(data), 1, 5)]
    ELSE IF TooFewNumeric(data)
    THEN [valid |-> FALSE, message |-> "Most columns should be numeric",
          listed |-> <<>>]
    ELSE [valid |-> TRUE, message |-> "Data validation passed", listed |-> <<>>]

(***************************************************************************)
(* utils.prepare_data_for_prediction                                       *)
(***************************************************************************)
MaxNum == 9         \* the numbers a cell may hold: 0..MaxNum

IntAtom(n) == ToString(n)

FloatAtom(n) == ToString(n) \o ".0"

IsIntText(t) == \E n \in 0..MaxNum : t = Atom(IntAtom(n))

IsNumberText(t) == \E n \in 0..MaxNum : t = Atom(IntAtom(n)) \/ t = Atom(FloatAtom(n))

NumberOfText(t) ==
    CHOOSE n \in 0..MaxNum : t = Atom(IntAtom(n)) \/ t = Atom(FloatAtom(n))

ColumnValues(data, j) == [r \in DOMAIN data.rows |-> data.rows[r][j]]

\* data[col] = values, col a column of data: the DataFrame is changed in place.
SetColumn(data, j, dtype, values) ==
    [data EXCEPT !.dtypes[j] = dtype,
                 !.rows = [r \in DOMAIN data.rows |->
                              [data.rows[r] EXCEPT ![j] = values[r]]]]

\* data.drop(col, axis=1): a new DataFrame without the column.
DropColumn(data, col) ==
    LET Kept(j) == data.columns[j] # col
    IN  DataFrame(SelectIdx(data.columns, Kept, 1),
                  SelectIdx(data.dtypes, Kept, 1),
                  [r \in DOMAIN data.rows |-> SelectIdx(data.rows[r], Kept, 1)])

\* pd.to_numeric(values, errors='coerce') raises on a value it has no
\* conversion for.
ToNumericRaises(values) == \E r \in DOMAIN values : values[r].k = "obj"

\* errors='coerce': a value that does not parse as a number becomes NaN.
CoerceValue(v) ==
    CASE v.k = "num" -> v
      [] v.k = "bool" -> Num(v.n)
      [] v.k = "str" -> IF IsNumberText(v.s) THEN Num(NumberOfText(v.s)) ELSE NA
      [] OTHER -> NA

ToNumericValues(values) == [r \in DOMAIN values |-> CoerceValue(values[r])]

\* int64 when every value is an integer, float64 otherwise (NaN is a float).
ToNumericDtype(values) ==
    IF \A r \in DOMAIN values :
            \/ values[r].k \in {"num", "bool"}
            \/ values[r].k = "str" /\ IsIntText(values[r].s)
    THEN "int64" ELSE "float64"

\* One turn of the loop over features_df.columns.
CoerceColumn(df, j) ==
    IF is_numeric_dtype(df.dtypes[j]) THEN df
    ELSE IF ToNumericRaises(ColumnValues(df, j))
    THEN SetColumn(df, j, "int64", [r \in DOMAIN df.rows |-> Num(0)])
    ELSE SetColumn(df, j, ToNumericDtype(ColumnValues(df, j)),
                   ToNumericValues(ColumnValues(df, j)))

RECURSIVE CoerceColumns(_, _)
CoerceColumns(df, j) ==
    IF j > Len(df.columns) THEN df ELSE CoerceColumns(CoerceColumn(df, j), j + 1)

FillnaNothing(df, x) == df

\* df.fillna(x): a new DataFrame, every NaN replaced.
Fillna(df, x) ==
    [df EXCEPT !.rows = [r \in DOMAIN df.rows |->
                            [j \in DOMAIN df.rows[r] |->
                                IF df.rows[r][j].k = "nan" THEN Num(x)
                                ELSE df.rows[r][j]]]]

ClassColumn == Atom("Class")

\* What the call returns (features_df, actual_labels), and data: the caller's
\* DataFrame as the call leaves it.  Without a 'Class' column features_df is
\* data itself, and the loop's assignments are made to the caller's DataFrame.
prepare_data_for_prediction(data) ==
    LET has_class == HasColumn(data, ClassColumn)
        actual_labels ==
            IF has_class THEN Some(ColumnValues(data, ColumnIndex(data, ClassColumn)))
            ELSE None
        features_df == IF has_class THEN DropColumn(data, ClassColumn) ELSE data
        coerced == CoerceColumns(features_df, 1)
    IN  [features_df |-> Fillna(coerced, 0),
         actual_labels |-> actual_labels,
         data |-> IF has_class THEN data ELSE coerced]

(***************************************************************************)
(* CSV text: pd.read_csv and DataFrame.to_csv(index=False).                *)
(***************************************************************************)
NeedsQuoting(t) == \E i \in DOMAIN t : t[i] \in {Comma, Quote, Newline}

RECURSIVE DoubleQuotes(_)
DoubleQuotes(t) ==
    IF t = <<>> THEN <<>>
    ELSE (IF Head(t) = Quote THEN <<Quote, Quote>> ELSE <<Head(t)>>)
            \o DoubleQuotes(Tail(t))

\* csv.QUOTE_MINIMAL: a field is quoted when it holds a delimiter, a quote or
\* a line break, and its quotes are doubled.
QuoteField(t) ==
    IF NeedsQuoting(t) THEN <<Quote>> \o DoubleQuotes(t) \o <<Quote>> ELSE t

RECURSIVE WriteRecord(_)
\* one line: the fields, a comma between two, a line break at the end
WriteRecord(fields) ==
    IF fields = <<>> THEN <<Newline>>
    ELSE IF Len(fields) = 1 THEN QuoteField(fields[1]) \o <<Newline>>
    ELSE QuoteField(fields[1]) \o <<Comma>> \o WriteRecord(Tail(fields))

RECURSIVE WriteRecords(_)
WriteRecords(records) ==
    IF records = <<>> THEN <<>>
    ELSE WriteRecord(Head(records)) \o WriteRecords(Tail(records))

ProbAtom(p) ==
    IF p = 100 THEN "1.0"
    ELSE IF p % 10 = 0 THEN "0." \o ToString(p \div 10)
    ELSE IF p < 10 THEN "0.0" \o ToString(p)
    ELSE "0." \o ToString(p)

\* How to_csv writes a value of a column of the dtype (NaN: the empty field).
RenderValue(v, dtype) ==
    CASE v.k = "nan" -> <<>>
      [] v.k = "num" -> Atom(IF dtype = "float64" THEN FloatAtom(v.n) ELSE IntAtom(v.n))
      [] v.k = "prob" -> Atom(ProbAtom(v.n))
      [] v.k = "bool" -> Atom(IF v.n = 1 THEN "True" ELSE "False")
      [] v.k = "str" -> v.s
      [] OTHER -> Atom("[]")

\* df.to_csv(index=False)
to_csv(df) ==
    WriteRecords(<<df.columns>> \o
        [r \in DOMAIN df.rows |->
            [j \in DOMAIN df.columns |-> RenderValue(df.rows[r][j], df.dtypes[j])]])

RECURSIVE SortedSeq(_)
\* the numbers of a set, in increasing order
SortedSeq(S) ==
    IF S = {} THEN <<>>
    ELSE LET least == CHOOSE x \in S : \A y \in S : x <= y
         IN  <<least>> \o SortedSeq(S \ {least})

\* The places of a text outside quoted fields: an even number of quotes
\* comes before them (a doubled quote closes the field and opens it again).
Unquoted(quotes, i) == Cardinality({k \in quotes : k < i}) % 2 = 0

\* The pieces of text[from..to] between the separators at the places seps.
Split(seps, from, to) ==
    LET cuts == SortedSeq({i \in seps : from <= i /\ i <= to})
        starts == <<from>> \o [c \in DOMAIN cuts |-> cuts[c] + 1]
        ends == [c \in DOMAIN cuts |-> cuts[c] - 1] \o <<to>>
    IN  [c \in DOMAIN starts |-> [from |-> starts[c], to |-> ends[c]]]

\* A field as the reader returns it: the quotes around it removed, and of
\* every doubled quote one.
Unquote(text, quotes, from, to) ==
    LET inside == {k \in quotes : from <= k /\ k <= to}
        Keep(i) ==
            \/ i \notin inside
            \/ /\ Cardinality({k \in inside : k < i}) % 2 = 0
               /\ Cardinality({k \in inside : k < i}) > 0
    IN  SelectIdx(SubSeq(text, from, to), LAMBDA c : Keep(from + c - 1), 1)

\* The records of a CSV text: its lines, a line's fields.  The line break that
\* ends the text ends its last line and starts no other.
ScanCsv(text) ==
    LET quotes == {k \in DOMAIN text : text[k] = Quote}
        breaks == {i \in DOMAIN text : text[i] = Newline /\ Unquoted(quotes, i)}
        commas == {i \in DOMAIN text : text[i] = Comma /\ Unquoted(quotes, i)}
        last == IF Len(text) \in breaks THEN Len(text) - 1 ELSE Len(text)
        lines == IF text = <<>> THEN <<>> ELSE Split(breaks, 1, last)
    IN  [l \in DOMAIN lines |->
            LET fields == Split(commas, lines[l].from, lines[l].to)
            IN  [f \in DOMAIN fields |->
                    Unquote(text, quotes, fields[f].from, fields[f].to)]]

\* skip_blank_lines: a line without a character is no record.
ParseCsv(text) ==
    LET records == ScanCsv(text)
        NotBlank(r) == records[r] # << <<>> >>
    IN  SelectIdx(records, NotBlank, 1)

\* read_csv raises on a file without a header line (EmptyDataError) and on a
\* line of more fields than the header has (ParserError).
ReadCsvRaises(text) ==
    LET records == ParseCsv(text)
    IN  \/ records = <<>>
        \/ \E r \in DOMAIN records : Len(records[r]) > Len(records[1])

\* A line of fewer fields than the header is filled with empty fields.
Cell(record, j) == IF j <= Len(record) THEN record[j] ELSE <<>>

IsBoolText(t) == t = Atom("True") \/ t = Atom("False")

\* The dtype read_csv infers for a column from its cells.
InferDtype(cells) ==
    IF cells = <<>> THEN "object"
    ELSE IF \A r \in DOMAIN cells : IsIntText(cells[r]) THEN "int64"
    ELSE IF \A r \in DOMAIN cells : cells[r] = <<>> \/ IsNumberText(cells[r])
    THEN "float64"
    ELSE IF \A r \in DOMAIN cells : IsBoolText(cells[r]) THEN "bool"
    ELSE "object"

ReadValue(cell, dtype) ==
    IF cell = <<>> THEN NA
    ELSE IF dtype \in {"int64", "float64"} THEN Num(NumberOfText(cell))
    ELSE IF dtype = "bool" THEN Bool(cell = Atom("True"))
    ELSE Str(cell)

\* pd.read_csv(file), file a text read_csv does not raise on
read_csv(text) ==
    LET records == ParseCsv(text)
        header == records[1]
        lines == Tail(records)
        dtypes == [j \in DOMAIN header |->
                      InferDtype([r \in DOMAIN lines |-> Cell(lines[r], j)])]
    IN  DataFrame(header, dtypes,
            [r \in DOMAIN lines |->
                [j \in DOMAIN header |-> ReadValue(Cell(lines[r], j), dtypes[j])]])

(***************************************************************************)
(* flask_app: the result store and the two handlers.                       *)
(***************************************************************************)
Tokens == 1..MaxTokens

NoToken == 0

EmptyStore == [t \in {} |-> <<>>]

\* RESULTS_STORE.get(token)
StoreGet(store, token) == IF token \in DOMAIN store THEN Some(store[token]) ELSE None

\* if not data: None and the empty bytes are both false.
Falsy(data) == ~data.some \/ data.v = <<>>

StorePopKeeps(store, token) == [raised |-> FALSE, store |-> store]

StorePopStrict(store, token) ==
    IF token \in DOMAIN store
    THEN [raised |-> FALSE, store |-> [t \in DOMAIN store \ {token} |-> store[t]]]
    ELSE [raised |-> TRUE, store |-> store]

\* RESULTS_STORE.pop(token, None): no KeyError for a token that is not there.
StorePop(store, token) ==
    [raised |-> FALSE, store |-> [t \in DOMAIN store \ {token} |-> store[t]]]

\* RESULTS_STORE[token] = csv_bytes
StorePut(store, token, csv_bytes) ==
    [t \in DOMAIN store \cup {token} |-> IF t = token THEN csv_bytes ELSE store[t]]

NoResponse ==
    [kind |-> "none", flash |-> "", category |-> "", detail |-> "", token |-> NoToken,
     body |-> <<>>, metrics |-> NoMetrics, row_count |-> 0]

\* flash(message, category); return redirect(url_for("analyze"))
Redirect(message, category, detail) ==
    [NoResponse EXCEPT !.kind = "redirect", !.flash = message,
                       !.category = category, !.detail = detail]

\* An exception left the handler: Flask answers 500.
ServerError(exception) == [NoResponse EXCEPT !.kind = "error", !.detail = exception]

\* send_file(io.BytesIO(data), ...)
SendFile(token, data) == [NoResponse EXCEPT !.kind = "file", !.token = token, !.body = data]

\* render_template("results.html", ...)
Results(token, metrics, row_count) ==
    [NoResponse EXCEPT !.kind = "results", !.token = token, !.metrics = metrics,
                       !.row_count = row_count]

PredictionColumn == Atom("Fraud Prediction")

ProbabilityColumn == Atom("Fraud Probability")

MapLabelSwapped(p) ==
    CASE p = 0 -> Str(Atom("Fraudulent"))
      [] p = 1 -> Str(Atom("Legitimate"))
      [] OTHER -> NA

\* .map({0: 'Legitimate', 1: 'Fraudulent'}): NaN for another label
MapLabel(p) ==
    CASE p = 0 -> Str(Atom("Legitimate"))
      [] p = 1 -> Str(Atom("Fraudulent"))
      [] OTHER -> NA

\* df[col] = values: the column is replaced where it is, or added as the last.
AssignColumn(df, col, dtype, values) ==
    IF HasColumn(df, col) THEN SetColumn(df, ColumnIndex(df, col), dtype, values)
    ELSE DataFrame(Append(df.columns, col), Append(df.dtypes, dtype),
                   [r \in DOMAIN df.rows |-> Append(df.rows[r], values[r])])

\* results_df: df.copy() with the prediction column and, with probabilities, the
\* probability column.
ResultsFrame(df, predictions, proba) ==
    LET labelled == AssignColumn(df, PredictionColumn, "object",
                        [r \in DOMAIN predictions |-> MapLabel(predictions[r])])
    IN  IF proba.some
        THEN AssignColumn(labelled, ProbabilityColumn, "float64",
                          [r \in DOMAIN proba.v |-> Prob(proba.v[r])])
        ELSE labelled

\* The probabilities the handler keeps: probs[:, 1] of a two-dimensional array
\* of at least two columns; None when the model has no predict_proba, when the
\* call raises, and when what it returns has another shape.
KeptProba(model, req) ==
    IF model.has_proba /\ req.proba_mode = "ok"
    THEN Some([r \in DOMAIN req.labels |-> IF req.labels[r] = 1 THEN 90 ELSE 10])
    ELSE None

NoStored ==
    [df |-> DataFrame(<<>>, <<>>, <<>>), predictions |-> <<>>, proba |-> None,
     csv_bytes |-> <<>>]

NotStored(resp) == [response |-> resp, stored |-> FALSE, csv_bytes |-> <<>>, record |-> NoStored]

\* The one element of a set of one element.  A value computed once and used
\* many times is bound as the element of such a set.
Only(S) == CHOOSE x \in S : TRUE

\* /predict from the model's call on: predictions, probabilities, metrics, the
\* results table and its CSV bytes.
PredictAndStore(model, req, uploaded, df) ==
    LET predictions == req.labels
        proba == KeptProba(model, req)
        metrics == calculate_risk_metrics(predictions, proba)
        results_df == ResultsFrame(df, predictions, proba)
    IN  IF req.predict_raises
        THEN NotStored(Redirect("Model prediction failed", "danger", ""))
        ELSE IF metrics.exc # "none" THEN NotStored(ServerError(metrics.exc))
        ELSE [response |-> Results(NoToken, metrics.value, Len(results_df.rows)),
              stored |-> TRUE,
              csv_bytes |-> to_csv(results_df),
              record |-> [df |-> uploaded, predictions |-> predictions,
                          proba |-> proba, csv_bytes |-> to_csv(results_df)]]

\* /predict from the validation on.  df is the handler's DataFrame after
\* prepare_data_for_prediction(df) has returned.
ValidateAndPredict(model, req, uploaded) ==
    LET validation == validate_csv_data(uploaded)
    IN  IF ~validation.valid
        THEN NotStored(Redirect("Data validation failed", "danger", validation.message))
        ELSE Only({PredictAndStore(model, req, uploaded, prepared.data) :
                        prepared \in {prepare_data_for_prediction(uploaded)}})

predictModelFirst(model, req) ==
    IF ~model.loaded
    THEN NotStored(Redirect("Model not available. Please add a trained model file.",
                            "danger", ""))
    ELSE IF ~req.has_file_part
    THEN NotStored(Redirect("No file part in request", "danger", ""))
    ELSE IF ~req.has_filename
    THEN NotStored(Redirect("No file selected", "warning", ""))
    ELSE IF ReadCsvRaises(req.file)
    THEN NotStored(Redirect("Failed to read CSV", "danger", ""))
    ELSE Only({ValidateAndPredict(model, req, uploaded) :
                    uploaded \in {read_csv(req.file)}})

\* The /predict handler on request req: the response, and what is stored under
\* the token it draws, if anything.
predict(model, req) ==
    IF ~req.has_file_part
    THEN NotStored(Redirect("No file part in request", "danger", ""))
    ELSE IF ~req.has_filename
    THEN NotStored(Redirect("No file selected", "warning", ""))
    ELSE IF ~model.loaded
    THEN NotStored(Redirect("Model not available. Please add a trained model file.",
                            "danger", ""))
    ELSE IF ReadCsvRaises(req.file)
    THEN NotStored(Redirect("Failed to read CSV", "danger", ""))
    ELSE Only({ValidateAndPredict(model, req, uploaded) :
                    uploaded \in {read_csv(req.file)}})

\* The file is read and its table passes validation: with a model loaded, the
\* request reaches MODEL.predict.
ReachesModel(file) ==
    /\ ~ReadCsvRaises(file)
    /\ validate_csv_data(read_csv(file)).valid

\* The number of predictions MODEL.predict returns: one per row of the table.
RowsOfFile(file) == Len(read_csv(file).rows)

PredictRequest(has_file_part, has_filename, file, predict_raises, labels, proba_mode) ==
    [route |-> "predict", has_file_part |-> has_file_part,
     has_filename |-> has_filename, file |-> file, predict_raises |-> predict_raises,
     labels |-> labels, proba_mode |-> proba_mode, token |-> NoToken]

DownloadRequest(token) ==
    [route |-> "download", has_file_part |-> FALSE, has_filename |-> FALSE,
     file |-> <<>>, predict_raises |-> FALSE, labels |-> <<>>, proba_mode |-> "ok",
     token |-> token]

NoRequest == [DownloadRequest(NoToken) EXCEPT !.route = "none"]

ProbaModes == {"ok", "raises", "other shape"}

\* The requests /predict is sent, over the files of Files: without the file
\* part, without a file name, and with a file; the model, when the request
\* reaches it, raising or returning one label per row.
PredictRequests(Files) ==
    {PredictRequest(FALSE, FALSE, <<>>, FALSE, <<>>, "ok"),
     PredictRequest(TRUE, FALSE, <<>>, FALSE, <<>>, "ok")}
    \cup {PredictRequest(TRUE, TRUE, file, FALSE, <<>>, "ok") :
                file \in {f \in Files : ~ReachesModel(f)}}
    \cup {PredictRequest(TRUE, TRUE, file, TRUE, <<>>, "ok") :
                file \in {f \in Files : ReachesModel(f)}}
    \cup UNION {{PredictRequest(TRUE, TRUE, file, FALSE, labels, mode) :
                    labels \in {l \in SeqsUpTo({0, 1}, MaxRows) : Len(l) = RowsOfFile(file)},
                    mode \in ProbaModes} : file \in {f \in Files : ReachesModel(f)}}

\* load_model_with_fallback: a model is found, or none; one found has predict,
\* and may have predict_proba.
NoModel == [loaded |-> FALSE, has_proba |-> FALSE]

Models ==
    {NoModel, [loaded |-> TRUE, has_proba |-> FALSE], [loaded |-> TRUE, has_proba |-> TRUE]}

\* The handler's outcome on every request of Requests, for every model.
PredictOutcomes(Requests) ==
    {[model |-> model, req |-> req, done |-> predict(model, req)] :
        model \in Models, req \in Requests}

\* The tokens secrets.token_urlsafe(16) may return to a request that stores its
\* results: 128 random bits, so one no request has drawn before.  A request that
\* stores nothing draws none.
FreshTokens(stored) == IF stored THEN Tokens \ DOMAIN issued ELSE {NoToken}

\* One /predict request, Outcomes the handler's outcomes.
Predict(Outcomes) ==
    \E outcome \in Outcomes : \E token \in FreshTokens(outcome.done.stored) :
        LET req == outcome.req
            done == outcome.done
        IN  /\ outcome.model = MODEL
            /\ request' = req
            /\ response' = IF done.stored
                            THEN [done.response EXCEPT !.token = token]
                            ELSE done.response
            /\ RESULTS_STORE' = IF done.stored
                                THEN StorePut(RESULTS_STORE, token, done.csv_bytes)
                                ELSE RESULTS_STORE
            /\ issued' = IF done.stored
                         THEN [t \in DOMAIN issued \cup {token} |->
                                  IF t = token THEN done.record ELSE issued[t]]
                         ELSE issued
            /\ UNCHANGED <<MODEL, okCount>>

\* The /download handler, first half: the lookup and, when nothing is found,
\* the flash and the redirect.
DownloadLookup(store, token) ==
    LET data == StoreGet(store, token)
    IN  IF Falsy(data)
        THEN [found |-> FALSE, data |-> <<>>,
              response |-> Redirect("Your download link has expired. Please re-run the analysis.",
                                    "warning", "")]
        ELSE [found |-> TRUE, data |-> data.v, response |-> NoResponse]

\* Second half: the pop and the file sent.
DownloadSend(store, token, data) ==
    LET popped == StorePop(store, token)
    IN  [store |-> popped.store,
         response |-> IF popped.raised THEN ServerError("KeyError")
                      ELSE SendFile(token, data)]

\* One /download request, handled from its first line to its last.
Download ==
    \E token \in Tokens :
        LET looked == DownloadLookup(RESULTS_STORE, token)
            sent == DownloadSend(RESULTS_STORE, token, looked.data)
        IN  /\ request' = DownloadRequest(token)
            /\ response' = IF looked.found THEN sent.response ELSE looked.response
            /\ RESULTS_STORE' = IF looked.found THEN sent.store ELSE RESULTS_STORE
            /\ okCount' = IF looked.found /\ sent.response.kind = "file"
                          THEN [okCount EXCEPT ![token] = @ + 1]
                          ELSE okCount
            /\ UNCHANGED <<MODEL, issued>>

(***************************************************************************)
(* The files uploaded: a table of the features V1..V<nfeat>, the first     *)
(* nobj of them holding text, then a column 'Note' of some kind, then      *)
(* 'Class'; written as CSV.                                                *)
(***************************************************************************)
NoteKinds == {"none", "text", "mixed", "quoted", "gaps"}

NoteCell(note, r) ==
    CASE note = "text" -> Atom("x")
      [] note = "mixed" -> IF r = 1 THEN Atom("x") ELSE Atom(IntAtom(r))
      [] note = "quoted" -> <<"a", Comma, Quote, Newline, "b">>
      [] OTHER -> IF r = 1 THEN <<>> ELSE Atom(FloatAtom(r))

UploadRecords(nfeat, nobj, note, with_class, nrows) ==
    LET tail == (IF note = "none" THEN <<>> ELSE <<"Note">>)
                    \o (IF with_class THEN <<"Class">> ELSE <<>>)
        header == [j \in 1..nfeat |-> expected_features[j]]
                    \o [j \in DOMAIN tail |-> Atom(tail[j])]
        Line(r) == [j \in 1..nfeat |-> IF j <= nobj THEN Atom("x") ELSE Atom(IntAtom(r))]
                    \o (IF note = "none" THEN <<>> ELSE <<NoteCell(note, r)>>)
                    \o (IF with_class THEN <<Atom(IntAtom(r % 2))>> ELSE <<>>)
    IN  <<header>> \o [r \in 1..nrows |-> Line(r)]

UploadFile(nfeat, nobj, note, with_class, nrows) ==
    WriteRecords(UploadRecords(nfeat, nobj, note, with_class, nrows))

EmptyFile == <<>>

\* a line of more fields than the header
RaggedFile == WriteRecords(<< <<Atom("V1")>>, <<Atom("1"), Atom("2")>> >>)

\* Every shape of upload.
AllFiles ==
    {EmptyFile, RaggedFile, UploadFile(4, 0, "none", FALSE, 1)}
    \cup {UploadFile(nfeat, nobj, note, with_class, nrows) :
            nfeat \in {7, 8}, nobj \in {0, 2}, note \in NoteKinds,
            with_class \in BOOLEAN, nrows \in 0..MaxRows}

\* A few: no table, a table that fails validation, two that pass.
FewFiles ==
    {EmptyFile, UploadFile(4, 0, "none", FALSE, 1),
     UploadFile(8, 0, "text", FALSE, 1), UploadFile(8, 0, "none", TRUE, 1)}

\* A request thread: idle (no request yet), got (the lookup found the data, the
\* pop is to come) or done; got_at and popped_at are the times of the two steps.
IdleThread ==
    [pc |-> "idle", token |-> NoToken, found |-> FALSE, data |-> <<>>,
     result |-> "none", got_at |-> 0, popped_at |-> 0]

AppIdle ==
    /\ RESULTS_STORE = EmptyStore
    /\ request = NoRequest
    /\ response = NoResponse
    /\ issued = [t \in {} |-> NoStored]
    /\ okCount = [t \in Tokens |-> 0]

ThreadsIdle ==
    /\ threads = [r \in 1..MaxThreads |-> IdleThread]
    /\ now = 0

HelperIdle ==
    /\ arg = <<>>
    /\ ret = <<>>
    /\ called = FALSE

\* The state after the module is loaded: the model found or not, nothing stored.
Init ==
    /\ MODEL \in Models
    /\ AppIdle
    /\ ThreadsIdle
    /\ HelperIdle

\* The development server handling one request after the other.
FewRequests == PredictRequests(FewFiles)

FewOutcomes == PredictOutcomes(FewRequests)

PredictFew == Predict(FewOutcomes) /\ UNCHANGED <<threadVars, helperVars>>

DownloadOnce == Download /\ UNCHANGED <<threadVars, helperVars>>

Next == PredictFew \/ DownloadOnce

Spec == Init /\ [][Next]_vars

\* A first request, an upload of any shape, and the downloads after it.
AllRequests == PredictRequests(AllFiles)

AllOutcomes == PredictOutcomes(AllRequests)

PredictAny ==
    /\ request = NoRequest
    /\ Predict(AllOutcomes)
    /\ UNCHANGED <<threadVars, helperVars>>

ArtifactNext == PredictAny \/ DownloadOnce

SpecArtifact == Init /\ [][ArtifactNext]_vars

(***************************************************************************)
(* /download requests served by concurrent threads (the development server *)
(* is threaded).  A step is one access to RESULTS_STORE with the lines     *)
(* that follow it; both accesses are atomic, and nothing orders the        *)
(* threads between them.                                                   *)
(***************************************************************************)
Threads == 1..MaxThreads

\* data = RESULTS_STORE.get(token), and the redirect when there is no data
ThreadLookup(r) ==
    \E token \in Tokens :
        LET looked == DownloadLookup(RESULTS_STORE, token)
        IN  /\ threads[r].pc = "idle"
            /\ threads' = [threads EXCEPT ![r] =
                    [pc |-> IF looked.found THEN "got" ELSE "done",
                     token |-> token, found |-> looked.found, data |-> looked.data,
                     result |-> IF looked.found THEN "none" ELSE "expired",
                     got_at |-> now + 1, popped_at |-> 0]]
            /\ now' = now + 1
            /\ UNCHANGED <<appVars, helperVars>>

\* RESULTS_STORE.pop(token, None), and the file sent
ThreadSend(r) ==
    LET sent == DownloadSend(RESULTS_STORE, threads[r].token, threads[r].data)
        ok == sent.response.kind = "file"
    IN  /\ threads[r].pc = "got"
        /\ threads' = [threads EXCEPT ![r].pc = "done",
                                      ![r].result = IF ok THEN "file" ELSE "error",
                                      ![r].popped_at = now + 1]
        /\ now' = now + 1
        /\ RESULTS_STORE' = sent.store
        /\ okCount' = IF ok THEN [okCount EXCEPT ![threads[r].token] = @ + 1]
                      ELSE okCount
        /\ UNCHANGED <<MODEL, request, response, issued, helperVars>>

\* One table that passes validation, and the requests with it whose results
\* are stored.
OneFile == {UploadFile(8, 0, "none", FALSE, 1)}

OneFileOutcomes ==
    {outcome \in PredictOutcomes(PredictRequests(OneFile)) :
        outcome.done.stored /\ outcome.req.proba_mode = "ok"}

PredictOne == Predict(OneFileOutcomes) /\ UNCHANGED <<threadVars, helperVars>>

LookupStep == \E r \in Threads : ThreadLookup(r)

SendStep == \E r \in Threads : ThreadSend(r)

ThreadedNext == PredictOne \/ LookupStep \/ SendStep

SpecThreaded == Init /\ [][ThreadedNext]_vars

(***************************************************************************)
(* The helper under call: calculate_risk_metrics.                          *)
(***************************************************************************)
Block(zeros, ones) == [i \in 1..(zeros + ones) |-> IF i <= zeros THEN 0 ELSE 1]

PredictionSeqs ==
    SeqsUpTo({0, 1}, MaxLen)
        \cup {Block(z, o) : z \in 0..MaxZeros, o \in 0..MaxOnes}

\* No probabilities, or one per prediction.
ProbabilityChoices(predictions) ==
    {None,
     Some([i \in DOMAIN predictions |-> IF predictions[i] = 1 THEN 90 ELSE 10]),
     Some([i \in DOMAIN predictions |-> 50])}

MetricsInit ==
    /\ MODEL = NoModel /\ AppIdle /\ ThreadsIdle
    /\ \E p \in PredictionSeqs : \E q \in ProbabilityChoices(p) :
            arg = [predictions |-> p, probabilities |-> q]
    /\ ret = Raised("not called")
    /\ called = FALSE

CallMetrics ==
    /\ ~called
    /\ UNCHANGED <<appVars, threadVars>>
    /\ ret' = calculate_risk_metrics(arg.predictions, arg.probabilities)
    /\ called' = TRUE
    /\ UNCHANGED arg

MetricsNext == CallMetrics

SpecMetrics == MetricsInit /\ [][MetricsNext]_vars


(***************************************************************************)
(* Claims about calculate_risk_metrics.                                    *)
(***************************************************************************)
MetricsReturned == called /\ ret.exc = "none"

\* C2: the risk level is HIGH iff fraud_rate > 5, MEDIUM iff 2 < fraud_rate <= 5
\* and LOW iff fraud_rate <= 2, for every prediction sequence; 1 fraud in 5 is
\* rate 20 and HIGH, 2 frauds in 100 is rate exactly 2 and LOW.
RiskLevelByThresholds ==
    MetricsReturned =>
        LET m == ret.value
        IN  /\ m.fraud_rate = NpTimes(NpDivide(m.fraud_count, m.total_transactions), 100)
            /\ m.risk_level = "HIGH" <=> FloatGt(m.fraud_rate, 5)
            /\ m.risk_level = "MEDIUM" <=>
                    (FloatGt(m.fraud_rate, 2) /\ FloatLe(m.fraud_rate, 5))
            /\ m.risk_level = "LOW" <=> FloatLe(m.fraud_rate, 2)
            /\ arg.predictions = <<0, 0, 0, 0, 1>> =>
                    (FloatEq(m.fraud_rate, 20) /\ m.risk_level = "HIGH")
            /\ arg.predictions = Block(98, 2) =>
                    (FloatEq(m.fraud_rate, 2) /\ m.risk_level = "LOW")

\* The thresholds of C2 on every sequence that has a prediction in it.
RiskLevelByThresholdsNonEmpty ==
    (MetricsReturned /\ arg.predictions # <<>>) => RiskLevelByThresholds

\* C3: fraud_count + legitimate_count = total_transactions, fraud_count the
\* number of predictions equal to 1, legitimate_count of those equal to 0 and
\* total_transactions the length of the sequence.
CountsPartitionTotal ==
    MetricsReturned =>
        LET m == ret.value
            p == arg.predictions
        IN  /\ m.fraud_count + m.legitimate_count = m.total_transactions
            /\ m.total_transactions = Len(p)
            /\ m.fraud_count = Cardinality({i \in DOMAIN p : p[i] = 1})
            /\ m.legitimate_count = Cardinality({i \in DOMAIN p : p[i] = 0})

CountsPartitionWitness ==
    /\ MetricsReturned
    /\ ret.value.fraud_count >= 2
    /\ ret.value.legitimate_count >= 2

\* C4: on the empty prediction sequence calculate_risk_metrics raises nothing
\* and returns total_transactions = 0, fraud_rate = 0 and risk_level LOW.
EmptyPredictionsDefined ==
    (called /\ arg.predictions = <<>>) =>
        /\ ret.exc = "none"
        /\ ret.value.total_transactions = 0
        /\ FloatEq(ret.value.fraud_rate, 0)
        /\ ret.value.risk_level = "LOW"

(***************************************************************************)
(* The helper under call: validate_csv_data.  The tables: the expected     *)
(* features V<first>..V<last>, then other columns; the leading columns     *)
(* hold strings, the others integers; one row, or none (read_csv gives     *)
(* every column of a table without rows the dtype object).                 *)
(***************************************************************************)
MaxOther == 3       \* columns that are no expected feature
MaxObject == 3      \* columns that hold strings

OtherName(j) == Atom("X" \o ToString(j))

ShapedFrame(first, last, others, objects, nrows) ==
    LET nfeat == IF last >= first THEN last - first + 1 ELSE 0
        ncols == nfeat + others
        columns == [j \in 1..ncols |->
                        IF j <= nfeat THEN expected_features[first + j - 1]
                        ELSE OtherName(j - nfeat)]
        dtypes == [j \in 1..ncols |->
                        IF nrows = 0 \/ j <= objects THEN "object" ELSE "int64"]
        row == [j \in 1..ncols |-> IF j <= objects THEN Str(Atom("x")) ELSE Num(1)]
    IN  DataFrame(columns, dtypes, [r \in 1..nrows |-> row])

ShapedFrames ==
    {ShapedFrame(first, last, others, objects, nrows) :
        first \in 1..NumExpectedFeatures, last \in 0..NumExpectedFeatures,
        others \in 0..MaxOther, objects \in 0..MaxObject, nrows \in 0..1}

ValidateInit ==
    /\ MODEL = NoModel /\ AppIdle /\ ThreadsIdle
    /\ arg \in ShapedFrames
    /\ ret = [valid |-> FALSE, message |-> "not called", listed |-> <<>>]
    /\ called = FALSE

CallValidate ==
    /\ ~called
    /\ UNCHANGED <<appVars, threadVars>>
    /\ ret' = validate_csv_data(arg)
    /\ called' = TRUE
    /\ UNCHANGED arg

ValidateNext == CallValidate

SpecValidate == ValidateInit /\ [][ValidateNext]_vars

\* How many of the expected features are columns of the table.
PresentFeatures(data) ==
    Cardinality({i \in 1..28 : HasColumn(data, Atom("V" \o ToString(i)))})

NumberColumns(data) ==
    Cardinality({j \in DOMAIN data.dtypes : data.dtypes[j] \in {"int64", "float64"}})

FewColumns(data) == Len(data.columns) < 5

ManyAbsent(data) == 28 - PresentFeatures(data) > 20

FewNumeric(data) == 5 * NumberColumns(data) < 4 * Len(data.columns)

\* C5: valid is true for every table of at least 5 columns, at least 9 of the 28
\* names V1..V28 and at least 80% numeric columns; valid is false exactly when
\* one of the three rules fails, and the rule reported is the first that fails,
\* in the order: fewer than 5 columns, more than 20 names absent, fewer than
\* 80% numeric.
ValidatorRules ==
    called =>
        /\ (/\ Len(arg.columns) >= 5
            /\ PresentFeatures(arg) >= 9
            /\ 5 * NumberColumns(arg) >= 4 * Len(arg.columns)) => ret.valid
        /\ ~ret.valid <=> (FewColumns(arg) \/ ManyAbsent(arg) \/ FewNumeric(arg))
        /\ FewColumns(arg) => ret.message = "CSV must contain at least 5 columns"
        /\ (~FewColumns(arg) /\ ManyAbsent(arg)) =>
                ret.message = "Missing many expected feature columns"
        /\ (~FewColumns(arg) /\ ~ManyAbsent(arg) /\ FewNumeric(arg)) =>
                ret.message = "Most columns should be numeric"

\* A table of exactly 8 expected features (20 absent) and exactly 80% numeric
\* columns was found valid.
ValidatorWitness ==
    /\ called
    /\ ret.valid
    /\ PresentFeatures(arg) = 8
    /\ 5 * NumberColumns(arg) = 4 * Len(arg.columns)

(***************************************************************************)
(* The helper under call: prepare_data_for_prediction.  The tables: every  *)
(* sequence of up to MaxPrepCols columns of the kinds below, with or       *)
(* without a last column 'Class'.                                          *)
(***************************************************************************)
MaxPrepCols == 3
PrepRows == 2

ColumnKinds == {"int", "float", "bool", "text", "digits", "list"}

KindDtype(kind) ==
    CASE kind = "int" -> "int64"
      [] kind = "float" -> "float64"
      [] kind = "bool" -> "bool"
      [] OTHER -> "object"

\* The value of row r in a column of the kind.
KindValue(kind, r) ==
    CASE kind = "int" -> Num(r)
      [] kind = "float" -> IF r % 2 = 0 THEN NA ELSE Num(r)
      [] kind = "bool" -> Bool(r % 2 = 0)
      [] kind = "text" ->
            IF r = 1 THEN Str(Atom("x"))
            ELSE IF r % 2 = 0 THEN Str(Atom(IntAtom(r))) ELSE NA
      [] kind = "digits" -> Str(Atom(IF r % 2 = 0 THEN IntAtom(r) ELSE FloatAtom(r)))
      [] OTHER -> IF r = 1 THEN Obj ELSE Str(Atom(IntAtom(r)))

KindFrame(kinds, with_class) ==
    LET ncols == Len(kinds) + (IF with_class THEN 1 ELSE 0)
        IsClass(j) == j > Len(kinds)
    IN  DataFrame(
            [j \in 1..ncols |-> IF IsClass(j) THEN ClassColumn ELSE OtherName(j)],
            [j \in 1..ncols |-> IF IsClass(j) THEN "int64" ELSE KindDtype(kinds[j])],
            [r \in 1..PrepRows |->
                [j \in 1..ncols |->
                    IF IsClass(j) THEN Num(r % 2) ELSE KindValue(kinds[j], r)]])

KindFrames ==
    {KindFrame(kinds, with_class) :
        kinds \in SeqsUpTo(ColumnKinds, MaxPrepCols) \ {<<>>}, with_class \in BOOLEAN}

PrepareInit ==
    /\ MODEL = NoModel /\ AppIdle /\ ThreadsIdle
    /\ arg \in KindFrames
    /\ ret = [features_df |-> arg, actual_labels |-> None, data |-> arg]
    /\ called = FALSE

CallPrepare ==
    /\ ~called
    /\ UNCHANGED <<appVars, threadVars>>
    /\ ret' = prepare_data_for_prediction(arg)
    /\ called' = TRUE
    /\ UNCHANGED arg

PrepareNext == CallPrepare

SpecPrepare == PrepareInit /\ [][PrepareNext]_vars

\* What the claim says a value of the table becomes.
PreparedValue(v, column_unsupported) ==
    IF column_unsupported THEN Num(0)
    ELSE IF v.k = "num" THEN v
    ELSE IF v.k = "bool" THEN v
    ELSE IF v.k = "str" /\ IsNumberText(v.s) THEN Num(NumberOfText(v.s))
    ELSE Num(0)

\* C6: the features table has only numeric columns and no missing value: 'Class'
\* is removed, a non-numeric column is coerced (a value that fails coercion
\* becomes missing), a column whose coercion is unsupported is all 0, and every
\* missing value is replaced by 0.
PreparedAllNumeric ==
    called =>
        LET f == ret.features_df
            Source(j) == ColumnIndex(arg, f.columns[j])
            Unsupported(j) ==
                /\ arg.dtypes[Source(j)] = "object"
                /\ \E r \in DOMAIN arg.rows : arg.rows[r][Source(j)].k = "obj"
        IN  /\ ~HasColumn(f, Atom("Class"))
            /\ Len(f.columns) =
                    Cardinality({j \in DOMAIN arg.columns : arg.columns[j] # Atom("Class")})
            /\ \A j \in DOMAIN f.columns :
                    /\ HasColumn(arg, f.columns[j])
                    /\ f.dtypes[j] \in {"int64", "float64", "bool"}
            /\ Len(f.rows) = Len(arg.rows)
            /\ \A r \in DOMAIN f.rows : \A j \in DOMAIN f.columns :
                    /\ f.rows[r][j].k \in {"num", "bool"}
                    /\ f.rows[r][j] =
                            PreparedValue(arg.rows[r][Source(j)], Unsupported(j))

\* A table with a missing number, a string that is no number and a column of
\* unsupported objects was prepared.
PreparedWitness ==
    /\ called
    /\ \E r \in DOMAIN arg.rows : \E j \in DOMAIN arg.columns : arg.rows[r][j].k = "nan"
    /\ \E r \in DOMAIN arg.rows : \E j \in DOMAIN arg.columns :
            arg.rows[r][j] = Str(Atom("x"))
    /\ \E r \in DOMAIN arg.rows : \E j \in DOMAIN arg.columns : arg.rows[r][j].k = "obj"
    /\ HasColumn(arg, Atom("Class"))

(***************************************************************************)
(* The handlers, one request after the other (Spec).                       *)
(***************************************************************************)
ExpiredToken ==
    Redirect("Your download link has expired. Please re-run the analysis.", "warning", "")

\* The token of the /download request of this step was stored by a /predict and
\* no /download has been sent its file yet.
FirstDownload ==
    /\ request'.token \in DOMAIN issued
    /\ okCount[request'.token] = 0

DownloadStepOnce ==
    request'.route = "download" =>
        IF FirstDownload
        THEN /\ response' = SendFile(request'.token, issued[request'.token].csv_bytes)
             /\ request'.token \in DOMAIN RESULTS_STORE
             /\ request'.token \notin DOMAIN RESULTS_STORE'
             /\ okCount'[request'.token] = 1
        ELSE /\ response' = ExpiredToken
             /\ RESULTS_STORE' = RESULTS_STORE
             /\ okCount' = okCount

\* C1: with the requests handled one after the other, the first /download of a
\* token stored by a successful /predict is sent the CSV bytes stored under it
\* and removes the token; every later /download of that token, and every
\* /download of a token never stored, is sent no file and gets the expired-link
\* flash and the redirect, the store unchanged.
TokenRetrievableOnce == [][DownloadStepOnce]_vars

\* a second /download of a token, answered with the expired-link redirect
TokenRetrievableOnceWitness ==
    /\ request.route = "download"
    /\ request.token \in DOMAIN issued
    /\ okCount[request.token] = 1
    /\ response = ExpiredToken
    /\ request.token \notin DOMAIN RESULTS_STORE

\* The error kind of a response, by the message flashed.
ErrorKind(resp) ==
    CASE resp.flash \in {"No file part in request", "No file selected"} -> "MissingUpload"
      [] resp.flash = "Model not available. Please add a trained model file." ->
            "ModelUnavailable"
      [] resp.flash = "Failed to read CSV" -> "InvalidCSV"
      [] resp.flash = "Data validation failed" -> "ValidationFailure"
      [] resp.flash = "Model prediction failed" -> "PredictionFailure"
      [] OTHER -> "none"

\* The files of FewFiles that cannot be read as CSV, and those whose table
\* fails validation.
UnreadableFiles == {file \in FewFiles : ReadCsvRaises(file)}

InvalidFiles ==
    {file \in FewFiles \ UnreadableFiles : ~validate_csv_data(read_csv(file)).valid}

\* The first check a request fails, the checks taken in the order missing
\* upload, model unavailable, CSV parse, validation, model predict.
FirstFailure(model, req) ==
    IF ~req.has_file_part \/ ~req.has_filename THEN "MissingUpload"
    ELSE IF ~model.loaded THEN "ModelUnavailable"
    ELSE IF req.file \in UnreadableFiles THEN "InvalidCSV"
    ELSE IF req.file \in InvalidFiles THEN "ValidationFailure"
    ELSE IF req.predict_raises THEN "PredictionFailure"
    ELSE "none"

PredictStepRecovered ==
    request'.route = "predict" =>
        LET failure == FirstFailure(MODEL, request')
        IN  /\ ErrorKind(response') = failure
            /\ failure # "none" =>
                /\ response'.kind = "redirect"
                /\ response'.flash # ""
                /\ RESULTS_STORE' = RESULTS_STORE
            /\ RESULTS_STORE' # RESULTS_STORE =>
                /\ failure = "none"
                /\ ~request'.predict_raises
            /\ failure = "none" =>
                /\ response'.kind = "results"
                /\ response'.token \in DOMAIN RESULTS_STORE' \ DOMAIN RESULTS_STORE
                /\ request'.proba_mode # "ok" =>
                        "avg_fraud_probability" \notin DOMAIN response'.metrics

\* C9: a /predict request that fails a check is answered with the flash of the
\* first check it fails (missing upload, model unavailable, CSV parse,
\* validation, model predict, in this order) and the redirect, and leaves the
\* store as it was; the store changes only when the model's predict has
\* returned; a request whose predict_proba fails is answered with the results,
\* without probabilities, its token stored.
PredictErrorsRecovered == [][PredictStepRecovered]_vars

\* a /predict answered with results although predict_proba raised, after which a
\* /predict without a model would be refused
PredictErrorsRecoveredWitness ==
    /\ request.route = "predict"
    /\ request.proba_mode = "raises"
    /\ MODEL.has_proba
    /\ response.kind = "results"
    /\ response.token \in DOMAIN RESULTS_STORE

(***************************************************************************)
(* The artifact of an upload of any shape (SpecArtifact).                  *)
(***************************************************************************)
Parsed(t) == read_csv(RESULTS_STORE[t])

LabelText(p) == IF p = 0 THEN Atom("Legitimate") ELSE Atom("Fraudulent")

\* The last column of the name: the one pandas writes for an assigned column.
ArtifactColumn(parsed, col) == ColumnValues(parsed, ColumnIndex(parsed, col))

LabelsRecovered(t) ==
    LET parsed == Parsed(t)
        predictions == issued[t].predictions
    IN  /\ ~ReadCsvRaises(RESULTS_STORE[t])
        /\ Len(parsed.rows) = Len(predictions)
        /\ HasColumn(parsed, PredictionColumn)
        /\ \A i \in DOMAIN predictions :
                ArtifactColumn(parsed, PredictionColumn)[i] = Str(LabelText(predictions[i]))
        \* the rows in the order of the upload: V3 holds the row's number
        /\ \A i \in DOMAIN predictions :
                ArtifactColumn(parsed, expected_features[3])[i] = Num(i)

\* C7: the CSV stored by /predict, parsed again, has one row per prediction, in
\* the order of the uploaded rows, and the 'Fraud Prediction' value of row i is
\* the string 'Legitimate' when prediction i is 0 and 'Fraudulent' when it is 1.
ArtifactRoundTrip == \A t \in DOMAIN RESULTS_STORE : LabelsRecovered(t)

\* two rows, one of each label, and a field that needs quoting
ArtifactRoundTripWitness ==
    \E t \in DOMAIN RESULTS_STORE :
        /\ issued[t].predictions = <<1, 0>>
        /\ \E i \in DOMAIN RESULTS_STORE[t] : RESULTS_STORE[t][i] = Quote
        /\ HasColumn(Parsed(t), ProbabilityColumn)

OriginalColumnsKept(t) ==
    LET parsed == Parsed(t)
        uploaded == issued[t].df
        ncols == Len(uploaded.columns)
    IN  /\ Len(parsed.rows) = Len(uploaded.rows)
        /\ Len(parsed.columns) >= ncols
        /\ \A j \in 1..ncols :
                /\ parsed.columns[j] = uploaded.columns[j]
                /\ ColumnValues(parsed, j) = ColumnValues(uploaded, j)
        /\ \A j \in (ncols + 1)..Len(parsed.columns) :
                parsed.columns[j] \in {PredictionColumn, ProbabilityColumn}

\* C10: every original column of the stored CSV holds the values of the
\* uploaded table, and the only columns added are 'Fraud Prediction' and
\* 'Fraud Probability'.
OriginalRowsUnchanged == \A t \in DOMAIN RESULTS_STORE : OriginalColumnsKept(t)

\* The same for the uploads that have a 'Class' column: the handler's table is
\* not the one prepare_data_for_prediction writes to.
OriginalRowsUnchangedWithClass ==
    \A t \in DOMAIN RESULTS_STORE :
        HasColumn(issued[t].df, Atom("Class")) => OriginalColumnsKept(t)

\* ... and for the uploads whose columns are all numeric already.
OriginalRowsUnchangedAllNumeric ==
    \A t \in DOMAIN RESULTS_STORE :
        (\A j \in DOMAIN issued[t].df.dtypes : is_numeric_dtype(issued[t].df.dtypes[j]))
            => OriginalColumnsKept(t)

(***************************************************************************)
(* /download in concurrent threads (SpecThreaded).                         *)
(***************************************************************************)
SameToken(r1, r2) ==
    /\ r1 # r2
    /\ threads[r1].pc # "idle"
    /\ threads[r2].pc # "idle"
    /\ threads[r1].token = threads[r2].token

\* r1 looked the token up before r2 removed it
LookupBeforePop(r1, r2) == threads[r1].got_at < threads[r2].popped_at

\* C8: two /download requests of one token are both sent the file only when
\* each has looked the token up before the other has removed it, and whenever
\* both have looked it up before either has removed it (both lookups found the
\* data) both are sent the stored bytes; the store does not keep the downloads
\* of a token to one.
ConcurrentDownloadsRace ==
    \A r1, r2 \in Threads :
        SameToken(r1, r2) =>
            /\ threads[r1].result = "file" /\ threads[r2].result = "file" =>
                    LookupBeforePop(r1, r2) /\ LookupBeforePop(r2, r1)
            /\ threads[r1].found /\ threads[r2].found /\ threads[r1].pc = "done" =>
                    /\ threads[r1].result = "file"
                    /\ threads[r1].data = issued[threads[r1].token].csv_bytes

\* both threads have been sent the file of the same token
ConcurrentDownloadsRaceWitness ==
    \E r1, r2 \in Threads :
        /\ SameToken(r1, r2)
        /\ threads[r1].result = "file"
        /\ threads[r2].result = "file"
        /\ okCount[threads[r1].token] = 2

=============================================================================
